---------------------------- MODULE Spec2Model ----------------------------
(***************************************************************************)
(* Model of the activity store GanttPrototype (src/gantt_prototype.py) and *)
(* of the script run of the Streamlit shell around its forms (src/app.py). *)
(*                                                                         *)
(* The DataFrame self.df is a sequence of rows, a row a record over the    *)
(* six columns.  A Timestamp is the ordinal of its day within 2024; a     *)
(* date string is a string, parsed by a table; arguments that the code     *)
(* tests with isinstance(.., str) are tagged [str |-> s] or [ts |-> t].   *)
(* Column names are written in ASCII (Nome_Attivita).                     *)
(***************************************************************************)
EXTENDS Integers, Sequences, FiniteSets, TLC

VARIABLES df,       \* self.df: the stored rows, in DataFrame order
          call,     \* the last call made on the store, with its arguments
          ret,      \* its outcome: [raised |-> BOOLEAN, value |-> ...]
          written,  \* the files that call wrote
          drawn,    \* the rows generate_gantt drew as bars, in drawing order
          issued,   \* the id the previous add_activity returned (0: none yet)
          ui        \* the last form submission of the shell and its message

vars == <<df, call, ret, written, drawn, issued, ui>>

(* ------------------------------ bounds -------------------------------- *)

MaxRows == 2      \* rows the store may hold
MaxId == 2        \* largest ID the model lets a row carry
MaxKwargs == 2    \* keyword arguments of one update_activity call

(* ------------------------------ values -------------------------------- *)

None == "None"

Columns ==
    {"ID", "Nome_Attivita", "Data_Inizio", "Data_Fine", "Persona_Riferimento", "Stato"}

\* pd.to_datetime on the date strings the model uses: the day of 2024.
DateTable == ("2024-05-01" :> 122) @@ ("2024-05-15" :> 136)

Timestamps == {DateTable[s] : s \in DOMAIN DateTable}

\* What a caller may pass as a date: a string, parseable or not, or a Timestamp.
DateArgs == {[str |-> "2024-05-01"], [str |-> "non-data"], [ts |-> DateTable["2024-05-15"]]}

Persons == {"", "Marco", "Laura"}

Names == {"", "Testing"}

Stati == {"In corso", "Completato"}

IdArgs == 0 .. MaxId

\* What st.date_input hands the shell: a datetime.date.
DateInputs == {[date |-> t] : t \in Timestamps}

isinstance_str(x) == "str" \in DOMAIN x

Parseable(x) == x.str \in DOMAIN DateTable

\* True when pd.to_datetime would raise on x (only strings are converted).
BadDate(x) == isinstance_str(x) /\ ~Parseable(x)

\* pd.to_datetime: parses a string, takes midnight of a date, keeps a Timestamp.
to_datetime(x) ==
    IF isinstance_str(x) THEN DateTable[x.str]
    ELSE IF "date" \in DOMAIN x THEN x.date
    ELSE x.ts

Returned(v) == [raised |-> FALSE, value |-> v]

Raised == [raised |-> TRUE, value |-> "ValueError"]

NoCall == [op |-> "init"]

NoSubmit == [form |-> "none"]

Init ==
    /\ df = <<>>
    /\ call = NoCall
    /\ ret = Returned(None)
    /\ written = {}
    /\ drawn = <<>>
    /\ issued = 0
    /\ ui = NoSubmit

(* --------------------------- add_activity ------------------------------ *)

RECURSIVE MaxID(_)
MaxID(d) ==
    IF Len(d) = 1 THEN d[1].ID
    ELSE LET m == MaxID(Tail(d)) IN IF d[1].ID > m THEN d[1].ID ELSE m

\* The slip of counting the rows instead of taking the largest ID.
NewId_ByCount(d) == Len(d) + 1

NewId(d) == IF Len(d) = 0 THEN 1 ELSE MaxID(d) + 1

NewRow(new_id, nome, data_inizio, data_fine, persona, stato) ==
    [ID |-> new_id, Nome_Attivita |-> nome, Data_Inizio |-> data_inizio,
     Data_Fine |-> data_fine, Persona_Riferimento |-> persona, Stato |-> stato]

\* The bound of the model: room for one more row and one more ID.
CanAdd(d) == Len(d) < MaxRows /\ NewId(d) <= MaxId

\* Lines 46-67: self.df with the new row appended, its dates converted.
Added(d, nome, data_inizio, data_fine, persona, stato) ==
    Append(d, NewRow(NewId(d), nome, to_datetime(data_inizio),
                     to_datetime(data_fine), persona, stato))

\* A direct call of add_activity, stato left to its default.
add_activity ==
    /\ \E nome \in Names \ {""}, persona \in Persons :
       \E data_inizio \in DateArgs, data_fine \in DateArgs :
          IF BadDate(data_inizio) \/ BadDate(data_fine)
          THEN /\ ret' = Raised
               /\ UNCHANGED <<df, issued>>
          ELSE /\ CanAdd(df)
               /\ df' = Added(df, nome, data_inizio, data_fine, persona, "In corso")
               /\ ret' = Returned(NewId(df))
               /\ issued' = NewId(df)
    /\ call' = [op |-> "add_activity"]
    /\ written' = {}
    /\ drawn' = <<>>
    /\ UNCHANGED ui

(* -------------------------- delete_activity ---------------------------- *)

\* The slip `id in self.df['ID']`, which tests the row labels 0 .. n-1.
IdFound_ByLabel(d, id) == id \in 0 .. (Len(d) - 1)

IdFound(d, id) == \E i \in 1 .. Len(d) : d[i].ID = id

DeleteRows(d, id) == SelectSeq(d, LAMBDA r : r.ID /= id)

\* A direct call of delete_activity.
delete_activity ==
    /\ \E id \in IdArgs :
          /\ call' = [op |-> "delete_activity", id |-> id]
          /\ IF ~IdFound(df, id)
             THEN /\ ret' = Returned(FALSE)
                  /\ UNCHANGED df
             ELSE /\ df' = DeleteRows(df, id)
                  /\ ret' = Returned(TRUE)
    /\ written' = {}
    /\ drawn' = <<>>
    /\ UNCHANGED <<issued, ui>>

(* -------------------------- update_activity ---------------------------- *)

DateColumns == {"Data_Inizio", "Data_Fine"}

\* The keyword names the model passes: two columns and one unknown field.
KwKeys == {"ID", "Data_Fine", "Priorita"}

KwValues(key) ==
    CASE key = "ID" -> 1 .. MaxId
      [] key = "Data_Fine" -> {[str |-> "2024-05-01"], [str |-> "non-data"]}
      [] OTHER -> {"Alta"}

KwPairs == UNION {{<<key, v>> : v \in KwValues(key)} : key \in KwKeys}

\* **kwargs of n entries, in call order; a keyword cannot be given twice.
RECURSIVE KwargsOfLen(_)
KwargsOfLen(n) ==
    IF n = 0 THEN {<<>>}
    ELSE UNION {{Append(kw, p) : p \in {q \in KwPairs :
                                          \A i \in 1 .. Len(kw) : kw[i][1] /= q[1]}} :
                kw \in KwargsOfLen(n - 1)}

Kwargs == UNION {KwargsOfLen(n) : n \in 0 .. MaxKwargs}

\* Lines 83-86: a date keyword given as a string becomes a Timestamp.
ConvertKwargs(kwargs) ==
    [i \in 1 .. Len(kwargs) |->
        IF kwargs[i][1] \in DateColumns /\ isinstance_str(kwargs[i][2])
        THEN <<kwargs[i][1], [ts |-> to_datetime(kwargs[i][2])]>>
        ELSE kwargs[i]]

\* The value a cell takes: a Timestamp is stored as its day.
Cell(key, value) == IF key \in DateColumns THEN to_datetime(value) ELSE value

\* Line 91: self.df.loc[self.df['ID'] == id, key] = value.
SetLoc(d, id, key, value) ==
    [i \in 1 .. Len(d) |->
        IF d[i].ID = id THEN [d[i] EXCEPT ![key] = Cell(key, value)] ELSE d[i]]

\* Lines 89-93: the loop over kwargs.items(), in call order; every entry reads
\* the IDs the entries before it left.
RECURSIVE ApplyKwargs(_, _, _)
ApplyKwargs(d, id, kwargs) ==
    IF kwargs = <<>> THEN d
    ELSE ApplyKwargs(IF kwargs[1][1] \in Columns
                     THEN SetLoc(d, id, kwargs[1][1], kwargs[1][2])
                     ELSE d,
                     id, Tail(kwargs))

UpdateIn(id, kwargs) ==
    /\ call' = [op |-> "update_activity", id |-> id, kwargs |-> kwargs]
    /\ written' = {}
    /\ drawn' = <<>>
    /\ UNCHANGED issued
    /\ IF ~IdFound(df, id)
       THEN /\ ret' = Returned(FALSE)
            /\ UNCHANGED df
       ELSE IF \E i \in 1 .. Len(kwargs) :
                  kwargs[i][1] \in DateColumns /\ BadDate(kwargs[i][2])
       THEN /\ ret' = Raised
            /\ UNCHANGED df
       ELSE /\ df' = ApplyKwargs(df, id, ConvertKwargs(kwargs))
            /\ ret' = Returned(TRUE)

update_activity ==
    /\ \E id \in IdArgs, kwargs \in Kwargs : UpdateIn(id, kwargs)
    /\ UNCHANGED ui

(* ---------------------------- read operations -------------------------- *)

\* self.df[self.df['Persona_Riferimento'] == person]
ByPerson(d, person) == SelectSeq(d, LAMBDA r : r.Persona_Riferimento = person)

\* The slip of returning the column itself, .unique() forgotten.
unique_Forgotten(s) == s

\* Series.unique(): the values in order of first appearance.
RECURSIVE unique(_)
unique(s) ==
    IF s = <<>> THEN <<>>
    ELSE LET u == unique(SubSeq(s, 1, Len(s) - 1)) IN
         IF \E i \in 1 .. Len(u) : u[i] = s[Len(s)] THEN u ELSE Append(u, s[Len(s)])

PersonColumn(d) == [i \in 1 .. Len(d) |-> d[i].Persona_Riferimento]

get_unique_persons ==
    /\ call' = [op |-> "get_unique_persons"]
    /\ ret' = Returned(unique(PersonColumn(df)))
    /\ written' = {}
    /\ drawn' = <<>>
    /\ UNCHANGED <<df, issued, ui>>

get_activities_by_person ==
    /\ \E person \in Persons :
          /\ call' = [op |-> "get_activities_by_person", person |-> person]
          /\ ret' = Returned(ByPerson(df, person))
    /\ written' = {}
    /\ drawn' = <<>>
    /\ UNCHANGED <<df, issued, ui>>

save_to_excel ==
    /\ \E file_path \in {"gantt_prototype.xlsx"} :
          /\ call' = [op |-> "save_to_excel", file_path |-> file_path]
          /\ ret' = Returned(file_path)
          /\ written' = {file_path}
    /\ drawn' = <<>>
    /\ UNCHANGED <<df, issued, ui>>

(* ---------------------------- generate_gantt --------------------------- *)

\* Python truth of a filter_person argument: None and '' are false.
Truthy(x) == x /= None /\ x /= ""

\* Lines 136-141: the rows the chart is made of.
Filtered(d, filter_person) ==
    IF Truthy(filter_person) THEN ByPerson(d, filter_person) ELSE d

\* sort_values('Data_Inizio') with the default quicksort: ascending, the order
\* of rows with equal start dates is not fixed.
SortOrders(d) ==
    {o \in [1 .. Len(d) -> 1 .. Len(d)] :
        /\ \A i, j \in 1 .. Len(d) : i /= j => o[i] /= o[j]
        /\ \A i, j \in 1 .. Len(d) : i < j => d[o[i]].Data_Inizio <= d[o[j]].Data_Inizio}

\* The slip of sorting self.df itself.
StoreAfterGantt_InPlace(d, sorted) == sorted

\* self.df after the call: the chart is made from a copy, and sort_values
\* returns a new frame.
StoreAfterGantt(d, sorted) == d

\* generate_gantt called on the store d.
GanttOn(d, output_file, filter_person) ==
    LET df_filtered == Filtered(d, filter_person) IN
    /\ call' = [op |-> "generate_gantt", output_file |-> output_file,
                filter_person |-> filter_person]
    /\ IF Len(df_filtered) = 0
       THEN /\ ret' = Returned(None)
            /\ written' = {}
            /\ drawn' = <<>>
            /\ df' = d
       ELSE \E o \in SortOrders(df_filtered) :
            LET sorted == [i \in 1 .. Len(df_filtered) |-> df_filtered[o[i]]] IN
            /\ drawn' = sorted
            /\ written' = {output_file}
            /\ ret' = Returned(output_file)
            /\ df' = StoreAfterGantt(d, sorted)

\* A direct call of generate_gantt.
generate_gantt ==
    /\ \E filter_person \in Persons \cup {None} :
          GanttOn(df, "gantt.png", filter_person)
    /\ UNCHANGED <<issued, ui>>

(* ------------------------------ the shell ------------------------------ *)

\* The values of s, as a set.
Range(s) == {s[i] : i \in 1 .. Len(s)}

\* Lines 32 and 35: the file of the chart (no name of the model holds a space,
\* so replace(' ', '_') changes none).
ChartPath(current_filter) ==
    IF Truthy(current_filter)
    THEN "gantt_charts/gantt_" \o current_filter \o ".png"
    ELSE "gantt_charts/gantt_completo.png"

\* Lines 26-38 and 125-137: the rest of the script run, on the store d the
\* form left: the selectbox offers 'Tutte' and the persons of the store, and
\* the chart of the selection is generated.
Page(d) ==
    IF Len(d) = 0
    THEN /\ df' = d
         /\ UNCHANGED <<call, ret, written, drawn>>
    ELSE \E selected_person \in {"Tutte"} \cup Range(unique(PersonColumn(d))) :
         LET current_filter == IF selected_person = "Tutte" THEN None
                               ELSE selected_person
         IN GanttOn(d, ChartPath(current_filter),
                    IF Truthy(current_filter) THEN current_filter ELSE None)

\* Line 62: nome_attivita and persona are both non-empty.
Required(nome_attivita, persona) == nome_attivita /= "" /\ persona /= ""

\* The slip of testing < where the code tests <=.
DatesInOrder_OrEqual(data_inizio_dt, data_fine_dt) == ~(data_fine_dt < data_inizio_dt)

\* Line 68, negated: the end is after the start.
DatesInOrder(data_inizio_dt, data_fine_dt) == ~(data_fine_dt <= data_inizio_dt)

\* Lines 61-75: the add form is submitted; then the page is drawn.
add_activity_form ==
    \E nome_attivita \in Names, persona \in Persons, stato \in Stati :
    \E data_inizio \in DateInputs, data_fine \in DateInputs :
    LET data_inizio_dt == to_datetime(data_inizio)
        data_fine_dt == to_datetime(data_fine)
        accepted == /\ Required(nome_attivita, persona)
                    /\ DatesInOrder(data_inizio_dt, data_fine_dt)
    IN
    /\ accepted => CanAdd(df)
    /\ ui' = [form |-> "add_activity_form", nome_attivita |-> nome_attivita,
              data_inizio |-> data_inizio, data_fine |-> data_fine,
              persona |-> persona, msg |-> IF accepted THEN "success" ELSE "error"]
    /\ issued' = IF accepted THEN NewId(df) ELSE issued
    /\ Page(IF accepted
            THEN Added(df, nome_attivita, [ts |-> data_inizio_dt],
                       [ts |-> data_fine_dt], persona, stato)
            ELSE df)

\* Lines 80 and 89-101: the delete form, shown when the store is not empty, is
\* submitted with one of the IDs its selectbox offers; then the page is drawn.
delete_activity_form ==
    /\ Len(df) > 0
    /\ \E i \in 1 .. Len(df) :
       LET id_to_delete == df[i].ID
           deleted == IdFound(df, id_to_delete)
       IN
       /\ ui' = [form |-> "delete_activity_form", id_to_delete |-> id_to_delete,
                 msg |-> IF deleted THEN "success" ELSE "error"]
       /\ Page(IF deleted THEN DeleteRows(df, id_to_delete) ELSE df)
    /\ UNCHANGED issued

(* --------------------------- specifications ---------------------------- *)

\* Any caller of the store's methods.
Next ==
    \/ add_activity
    \/ update_activity
    \/ delete_activity
    \/ get_unique_persons
    \/ get_activities_by_person
    \/ save_to_excel
    \/ generate_gantt

Spec == Init /\ [][Next]_vars

\* Only add_activity and delete_activity.
NextAddDelete == add_activity \/ delete_activity

SpecAddDelete == Init /\ [][NextAddDelete]_vars

\* Only the two forms of the shell.
NextShell == add_activity_form \/ delete_activity_form

SpecShell == Init /\ [][NextShell]_vars


(* ------------------------------- claims -------------------------------- *)

ReadOps == {"generate_gantt", "save_to_excel", "get_unique_persons",
            "get_activities_by_person"}

\* Some record of d has this id.
Stored(d, id) == \E i \in 1 .. Len(d) : d[i].ID = id

\* d without its k-th row.
Without(d, k) == [i \in 1 .. (Len(d) - 1) |-> IF i < k THEN d[i] ELSE d[i + 1]]

\* The position of the first row of d that holds person.
FirstRowOf(d, person) ==
    CHOOSE i \in 1 .. Len(d) :
        /\ d[i].Persona_Riferimento = person
        /\ \A j \in 1 .. (i - 1) : d[j].Persona_Riferimento /= person

\* s and t hold the same rows the same number of times.
SameRows(s, t) ==
    /\ Len(s) = Len(t)
    /\ \E o \in [1 .. Len(s) -> 1 .. Len(s)] :
          /\ \A i, j \in 1 .. Len(s) : i /= j => o[i] /= o[j]
          /\ \A i \in 1 .. Len(s) : s[i] = t[o[i]]

\* C1: no two stored records have the same ID, in every state that
\* add_activity, update_activity and delete_activity reach from the empty store.
C1_UniqueIds ==
    \A i, j \in 1 .. Len(df) : i /= j => df[i].ID /= df[j].ID

C3_EndAfterStart ==
    \A i \in 1 .. Len(df) : df[i].Data_Fine > df[i].Data_Inizio

\* C4: update_activity and delete_activity called with an id that no stored
\* record has return False and leave the store as it was, whatever the fields.
C4_UnknownIdNoEffect ==
    [][(call'.op \in {"update_activity", "delete_activity"} /\ ~Stored(df, call'.id))
          => (~ret'.raised /\ ret'.value = FALSE /\ df' = df)]_vars

\* C4 witness: an update with fields, on a store that holds records, failed.
C4_Witness ==
    /\ call.op = "update_activity"
    /\ Len(call.kwargs) = MaxKwargs
    /\ Len(df) >= 1
    /\ ~Stored(df, call.id)
    /\ ~ret.raised
    /\ ret.value = FALSE

\* C5: delete_activity called with the id of a stored record returns True and
\* removes exactly one record, the one with that id; the others stay, with
\* their values and in their order.
C5_DeleteRemovesExactlyOne ==
    [][(call'.op = "delete_activity" /\ Stored(df, call'.id))
          => /\ ~ret'.raised
             /\ ret'.value = TRUE
             /\ \E k \in 1 .. Len(df) : df[k].ID = call'.id /\ df' = Without(df, k)]_vars

\* C6: update_activity called with an existing id and fields it can read
\* returns True, sets every supplied recognized field of the records with that
\* id to the supplied value (a date string to the date it parses to), ignores
\* the unrecognized names, and leaves the other fields and records unchanged.
C6_UpdateSetsEverySuppliedField ==
    [][(/\ call'.op = "update_activity"
        /\ Stored(df, call'.id)
        /\ \A n \in 1 .. Len(call'.kwargs) :
              ~(call'.kwargs[n][1] \in DateColumns /\ BadDate(call'.kwargs[n][2])))
          => /\ ~ret'.raised
             /\ ret'.value = TRUE
             /\ Len(df') = Len(df)
             /\ \A i \in 1 .. Len(df) :
                   IF df[i].ID = call'.id
                   THEN \A key \in Columns :
                           IF \E n \in 1 .. Len(call'.kwargs) : call'.kwargs[n][1] = key
                           THEN \A n \in 1 .. Len(call'.kwargs) :
                                   call'.kwargs[n][1] = key =>
                                      df'[i][key] = Cell(key, call'.kwargs[n][2])
                           ELSE df'[i][key] = df[i][key]
                   ELSE df'[i] = df[i]]_vars

\* C7: get_unique_persons returns every person some stored record holds, each
\* once, and nothing else, in the order of the first records holding them.
C7_UniquePersons ==
    call.op = "get_unique_persons" =>
        LET u == ret.value IN
        /\ Range(u) = {df[i].Persona_Riferimento : i \in 1 .. Len(df)}
        /\ \A a, b \in 1 .. Len(u) : a /= b => u[a] /= u[b]
        /\ \A a, b \in 1 .. Len(u) : a < b => FirstRowOf(df, u[a]) < FirstRowOf(df, u[b])

\* C7 witness: two records of one person, listed once.
C7_Witness ==
    /\ call.op = "get_unique_persons"
    /\ Len(df) = 2
    /\ df[1].Persona_Riferimento = df[2].Persona_Riferimento
    /\ Len(ret.value) = 1

\* C8: for every person value p passed as filter_person, generate_gantt draws
\* exactly the records get_activities_by_person(p) returns; when there is none
\* it returns None and writes no file, otherwise it writes the chart and
\* returns its path.
C8_GanttDrawsThePersonsRecords ==
    (call.op = "generate_gantt" /\ call.filter_person /= None) =>
        LET rows == ByPerson(df, call.filter_person) IN
        /\ SameRows(drawn, rows)
        /\ rows = <<>> => (ret.value = None /\ written = {})
        /\ rows /= <<>> => (ret.value = call.output_file /\ written = {call.output_file})

\* True when the submission the add form recorded must be refused.
Refused(submit) ==
    \/ submit.nome_attivita = ""
    \/ submit.persona = ""
    \/ to_datetime(submit.data_fine) <= to_datetime(submit.data_inizio)

\* C9: the add form, submitted with an end date not after the start date or
\* with an empty name or person, does not call add_activity and leaves the
\* store unchanged; so every record stored through the two forms has its end
\* after its start and a name and a person.
C9_ShellValidates ==
    /\ [](\A i \in 1 .. Len(df) :
             /\ df[i].Data_Fine > df[i].Data_Inizio
             /\ df[i].Nome_Attivita /= ""
             /\ df[i].Persona_Riferimento /= "")
    /\ [][(ui'.form = "add_activity_form" /\ Refused(ui'))
             => (df' = df /\ issued' = issued /\ ui'.msg = "error")]_vars

\* C9 witness: a refused submission on a store that holds a record.
C9_Witness ==
    /\ ui.form = "add_activity_form"
    /\ Refused(ui)
    /\ ui.msg = "error"
    /\ Len(df) >= 1

\* C10: generate_gantt, save_to_excel, get_unique_persons and
\* get_activities_by_person leave the records, their values and their order
\* as they were.
C10_ReadsLeaveStore ==
    [][call'.op \in ReadOps => df' = df]_vars

\* C10 witness: a chart whose bars are not in the order of the store.
C10_Witness ==
    /\ call.op = "generate_gantt"
    /\ Len(drawn) = 2
    /\ drawn /= df
    /\ Len(df) = 2

=============================================================================
